---- MODULE Spec2Model ----
(***************************************************************************)
(* Model of models.py: the perceptron's convergence loop, the three        *)
(* gradient-descent training loops (regression, digit classification,      *)
(* language identification) and the forward pass of the recurrent          *)
(* language-identification network.                                        *)
(*                                                                         *)
(* Numbers: the code computes in floating point.  Data, weights and        *)
(* gradients are integers here; the thresholds and learning rates are kept *)
(* in thousandths (0.02 -> 20, 0.978 -> 978, -0.05 -> -50).                *)
(***************************************************************************)
EXTENDS Integers, Sequences, FiniteSets, TLC

VARIABLES
    \* ---- PerceptronModel.train ----
    dataset,      \* the dataset: a sequence of examples [x |-> 1 x Dim node, y |-> label]
    w,            \* self.w, a 1 x Dim parameter
    p_pc,         \* position in train: "while", "for", "check", "done"
    continuing,   \* the local flag of train
    idx,          \* number of examples iterate_once(1) has yielded in this pass
    p_upd,        \* number of nn.Parameter.update calls made in this pass
    \* ---- the gradient-descent train loops ----
    model,        \* which model is being trained
    t_pc,         \* "loop" or "done"
    params,       \* parameter name -> value
    calls,        \* the update calls of the last loop iteration, in order
    loss,         \* the loss the last iteration read (RegressionModel)
    acc,          \* the validation accuracy the last iteration tested
    printed,      \* the last value printed (DigitClassificationModel)
    steps,        \* iterations that applied updates
    \* ---- LanguageIDModel.run ----
    xs,           \* the input: a sequence of L one-hot 1 x NumChars nodes
    net,          \* the parameters of the network
    r_pc,         \* "loop", "dense" or "done"
    first,        \* the local flag of run
    r_i,          \* number of elements of xs consumed
    x,            \* the local x of run: the hidden state
    adds,         \* number of times the else branch (nn.Add) was taken
    logits        \* the value run returns

pvars == <<dataset, w, p_pc, continuing, idx, p_upd>>
tvars == <<model, t_pc, params, calls, loss, acc, printed, steps>>
rvars == <<xs, net, r_pc, first, r_i, x, adds, logits>>
vars == <<pvars, tvars, rvars>>

(***************************************************************************)
(* Bounds of the model.                                                    *)
(***************************************************************************)
MaxN == 2          \* examples in a perceptron dataset: 0..MaxN
MaxSteps == 3      \* updating iterations of a gradient-descent loop
MaxL == 3          \* characters in a word: 1..MaxL
NumChars == 2      \* size of the alphabet (47 in the code)
HiddenSize == 2    \* width of the hidden layers (250 in the code)
NumLanguages == 2  \* number of logits (5 in the code)

\* The `dimensions` argument of PerceptronModel.
Dim == 2
\* Coordinates of the data points and of the initial weights.
Coord == -1 .. 1
InitWeight == -1 .. 1

(***************************************************************************)
(* The nn engine: nodes are matrices, sequences of rows.                   *)
(***************************************************************************)
RECURSIVE SumTo(_, _)
SumTo(f, n) == IF n = 0 THEN 0 ELSE f[n] + SumTo(f, n - 1)

Rows(a) == Len(a)
Cols(a) == Len(a[1])

\* nn.DotProduct(a, b): a batch x d node against a 1 x d node, a batch x 1 node.
DotProduct(a, b) ==
    [i \in 1 .. Rows(a) |->
        << SumTo([j \in 1 .. Cols(a) |-> a[i][j] * b[1][j]], Cols(a)) >>]

\* nn.as_scalar(node): the number held by a single-element node.
as_scalar(node) == node[1][1]

\* Parameter.update(direction, multiplier): data += multiplier * direction.
Update(p, direction, multiplier) ==
    [i \in 1 .. Rows(p) |->
        [j \in 1 .. Cols(p) |-> p[i][j] + multiplier * direction[i][j]]]

\* nn.Linear(features, weights): the matrix product.
Linear(a, b) ==
    [i \in 1 .. Rows(a) |->
        [j \in 1 .. Cols(b) |->
            SumTo([k \in 1 .. Cols(a) |-> a[i][k] * b[k][j]], Cols(a))]]

\* nn.AddBias(features, bias): the 1 x d bias added to every row.
AddBias(a, b) ==
    [i \in 1 .. Rows(a) |-> [j \in 1 .. Cols(a) |-> a[i][j] + b[1][j]]]

\* nn.Add(a, b): the element-wise sum.
Add(a, b) ==
    [i \in 1 .. Rows(a) |-> [j \in 1 .. Cols(a) |-> a[i][j] + b[i][j]]]

\* nn.ReLU(a): max(0, .) element-wise.
ReLU(a) ==
    [i \in 1 .. Rows(a) |->
        [j \in 1 .. Cols(a) |-> IF a[i][j] > 0 THEN a[i][j] ELSE 0]]

(***************************************************************************)
(* PerceptronModel                                                         *)
(***************************************************************************)
run(wt, pt) == DotProduct(wt, pt)

get_prediction_le(wt, pt) == IF as_scalar(run(wt, pt)) <= 0 THEN -1 ELSE 1

get_prediction(wt, pt) == IF as_scalar(run(wt, pt)) < 0 THEN -1 ELSE 1

Vectors(S) == {<<v>> : v \in [1 .. Dim -> S]}
Examples == [x : Vectors(Coord), y : {1, -1}]
Datasets == UNION {[1 .. n -> Examples] : n \in 0 .. MaxN}

PInit ==
    /\ dataset \in Datasets
    /\ w \in Vectors(InitWeight)
    /\ p_pc = "while"
    /\ continuing = 1
    /\ idx = 0
    /\ p_upd = 0

\* while 1: continuing = 1, and the pass begins
PWhile ==
    /\ p_pc = "while"
    /\ continuing' = 1
    /\ idx' = 0
    /\ p_upd' = 0
    /\ p_pc' = "for"
    /\ UNCHANGED <<dataset, w>>
    /\ UNCHANGED <<tvars, rvars>>

\* the multiplier train passes to update
UpdateMultiplierNeg(temp) == -temp

UpdateMultiplier(temp) == temp

FlagAfterUpdateKept(c) == c

\* continuing = -1
FlagAfterUpdate(c) == -1

\* one example on which the prediction differs from the label
PForUpdate ==
    /\ p_pc = "for"
    /\ idx < Len(dataset)
    /\ LET e == dataset[idx + 1]
           temp == e.y
       IN  /\ get_prediction(w, e.x) # temp
           /\ w' = Update(w, e.x, UpdateMultiplier(temp))
           /\ continuing' = FlagAfterUpdate(continuing)
           /\ p_upd' = p_upd + 1
    /\ idx' = idx + 1
    /\ UNCHANGED <<dataset, p_pc>>
    /\ UNCHANGED <<tvars, rvars>>

\* one example on which the prediction equals the label
PForKeep ==
    /\ p_pc = "for"
    /\ idx < Len(dataset)
    /\ LET e == dataset[idx + 1]
           temp == e.y
       IN  get_prediction(w, e.x) = temp
    /\ idx' = idx + 1
    /\ UNCHANGED <<dataset, w, continuing, p_upd, p_pc>>
    /\ UNCHANGED <<tvars, rvars>>

\* iterate_once is exhausted
PForEnd ==
    /\ p_pc = "for"
    /\ idx = Len(dataset)
    /\ p_pc' = "check"
    /\ UNCHANGED <<dataset, w, continuing, idx, p_upd>>
    /\ UNCHANGED <<tvars, rvars>>

BreakTestAlways(c) == TRUE

\* continuing>0
BreakTest(c) == c > 0

\* if continuing>0: break
PCheck ==
    /\ p_pc = "check"
    /\ p_pc' = IF BreakTest(continuing) THEN "done" ELSE "while"
    /\ UNCHANGED <<dataset, w, continuing, idx, p_upd>>
    /\ UNCHANGED <<tvars, rvars>>

TIdle ==
    /\ model = "none"
    /\ t_pc = "done"
    /\ params = <<>>
    /\ calls = <<>>
    /\ loss = 0
    /\ acc = 0
    /\ printed = 0
    /\ steps = 0

RIdle ==
    /\ xs = <<>>
    /\ net = <<>>
    /\ r_pc = "done"
    /\ first = 1
    /\ r_i = 0
    /\ x = <<>>
    /\ adds = 0
    /\ logits = <<>>

PIdle ==
    /\ dataset = <<>>
    /\ w = <<>>
    /\ p_pc = "done"
    /\ continuing = 1
    /\ idx = 0
    /\ p_upd = 0

PerceptronInit == PInit /\ TIdle /\ RIdle

PerceptronNext ==
    \/ PWhile
    \/ PForUpdate
    \/ PForKeep
    \/ PForEnd
    \/ PCheck

\* train is sequential code: a step that can be taken is taken
PerceptronSpec ==
    PerceptronInit /\ [][PerceptronNext]_vars /\ WF_vars(PerceptronNext)

(***************************************************************************)
(* The gradient-descent models.  A parameter is a 1 x 1 node holding       *)
(* thousandths.  A loss node is known by its partial derivatives, one per  *)
(* parameter of the model; the engine chooses them.                        *)
(***************************************************************************)
RegLearningRate == -5
RegLossTarget == 20
DigitLearningRate == -50
DigitAccuracyTarget == 978
LangLearningRate == -50
LangAccuracyTarget == 860

\* values the collaborators may return
LossVals == {0, 19, 20, 21}
AccVals == {859, 860, 977, 978, 1000}
GradScales == {-1, 2}

\* The loss nodes the engine may build for a model with these parameters:
\* the partial derivatives of one node differ from parameter to parameter.
GradBase(p) ==
    CASE p = "w1" -> 1
      [] p = "b1" -> 2
      [] p = "w2" -> 3
      [] p = "b2" -> 4
      [] p = "w3" -> 5
      [] p = "b3" -> 6
      [] p = "W_hidden" -> 7
      [] p = "W_hidden2" -> 8
LossNodes(names) ==
    {[p \in names |-> << <<k * GradBase(p)>> >>] : k \in GradScales}
InitVals == {<< <<-100>> >>, << <<100>> >>}

\* nn.gradients(lossNode, [params...]): one gradient per requested
\* parameter, in the order requested.
gradients(lossNode, plist) ==
    [i \in 1 .. Len(plist) |-> [wrt |-> plist[i], val |-> lossNode[plist[i]]]]

\* a call p.update(grad, multiplier), as the engine sees it
Call(p, g, m) == [param |-> p, grad |-> g, multiplier |-> m]

RegParams == {"w1", "b1", "w2", "b2"}
DigitParams == {"w1", "b1", "w2", "b2"}
LangParams == {"w1", "b1", "w2", "b2", "w3", "b3", "W_hidden", "W_hidden2"}

TInit(m, names) ==
    /\ model = m
    /\ t_pc = "loop"
    /\ \E v \in InitVals : params = [p \in names |-> v]
    /\ calls = <<>>
    /\ loss = 0
    /\ acc = 0
    /\ printed = 0
    /\ steps = 0

\* ---- RegressionModel.train ----
RegStopsLe(l) == l <= RegLossTarget

\* nn.as_scalar(self.get_loss(x, y)) < 0.02
RegStops(l) == l < RegLossTarget

RegGradListSwapped == <<"w1", "b1", "w2", "b2">>

\* the parameter list handed to nn.gradients
RegGradList == <<"w1", "w2", "b1", "b2">>

\* a batch whose loss is below the target: break
RegTrainBreak ==
    /\ model = "regression"
    /\ t_pc = "loop"
    /\ \E l \in LossVals :
        /\ RegStops(l)
        /\ loss' = l
    /\ t_pc' = "done"
    /\ calls' = <<>>
    /\ UNCHANGED <<model, params, acc, printed, steps>>
    /\ UNCHANGED <<pvars, rvars>>

\* any other batch: the gradients, then the four updates
RegTrainUpdate ==
    /\ model = "regression"
    /\ t_pc = "loop"
    /\ steps < MaxSteps
    /\ \E l \in LossVals, temp \in LossNodes(RegParams) :
        /\ ~RegStops(l)
        /\ loss' = l
        /\ LET grads == gradients(temp, RegGradList)
               grad_w1 == grads[1]
               grad_w2 == grads[2]
               grad_b1 == grads[3]
               grad_b2 == grads[4]
           IN  /\ params' =
                    [params EXCEPT
                        !["w1"] = Update(@, grad_w1.val, RegLearningRate),
                        !["w2"] = Update(@, grad_w2.val, RegLearningRate),
                        !["b1"] = Update(@, grad_b1.val, RegLearningRate),
                        !["b2"] = Update(@, grad_b2.val, RegLearningRate)]
               /\ calls' =
                    << Call("w1", grad_w1, RegLearningRate),
                       Call("w2", grad_w2, RegLearningRate),
                       Call("b1", grad_b1, RegLearningRate),
                       Call("b2", grad_b2, RegLearningRate) >>
    /\ steps' = steps + 1
    /\ UNCHANGED <<model, t_pc, acc, printed>>
    /\ UNCHANGED <<pvars, rvars>>

\* ---- DigitClassificationModel.train ----
DigitStopsStrict(a) == a > DigitAccuracyTarget

\* dataset.get_validation_accuracy() >= 0.978
DigitStops(a) == a >= DigitAccuracyTarget

\* the parameter list handed to nn.gradients
DigitGradList == <<"w1", "w2", "b1", "b2">>

\* the accuracy is printed, then read again and found at the target: break
DigitTrainBreak ==
    /\ model = "digit"
    /\ t_pc = "loop"
    /\ \E shown \in AccVals, a \in AccVals :
        /\ printed' = shown
        /\ DigitStops(a)
        /\ acc' = a
    /\ t_pc' = "done"
    /\ calls' = <<>>
    /\ UNCHANGED <<model, params, loss, steps>>
    /\ UNCHANGED <<pvars, rvars>>

\* the accuracy is printed, read again and found short: four updates
DigitTrainUpdate ==
    /\ model = "digit"
    /\ t_pc = "loop"
    /\ steps < MaxSteps
    /\ \E shown \in AccVals, a \in AccVals, temp \in LossNodes(DigitParams) :
        /\ printed' = shown
        /\ ~DigitStops(a)
        /\ acc' = a
        /\ LET grads == gradients(temp, DigitGradList)
               grad_w1 == grads[1]
               grad_w2 == grads[2]
               grad_b1 == grads[3]
               grad_b2 == grads[4]
           IN  /\ params' =
                    [params EXCEPT
                        !["w1"] = Update(@, grad_w1.val, DigitLearningRate),
                        !["w2"] = Update(@, grad_w2.val, DigitLearningRate),
                        !["b1"] = Update(@, grad_b1.val, DigitLearningRate),
                        !["b2"] = Update(@, grad_b2.val, DigitLearningRate)]
               /\ calls' =
                    << Call("w1", grad_w1, DigitLearningRate),
                       Call("w2", grad_w2, DigitLearningRate),
                       Call("b1", grad_b1, DigitLearningRate),
                       Call("b2", grad_b2, DigitLearningRate) >>
    /\ steps' = steps + 1
    /\ UNCHANGED <<model, t_pc, loss>>
    /\ UNCHANGED <<pvars, rvars>>

\* ---- LanguageIDModel.train ----
\* dataset.get_validation_accuracy() >= 0.86
LangStops(a) == a >= LangAccuracyTarget

\* the parameter list handed to nn.gradients
LangGradList == <<"w1", "w2", "w3", "b1", "b2", "b3">>

LangTrainBreak ==
    /\ model = "lang"
    /\ t_pc = "loop"
    /\ \E a \in AccVals :
        /\ LangStops(a)
        /\ acc' = a
    /\ t_pc' = "done"
    /\ calls' = <<>>
    /\ UNCHANGED <<model, params, loss, printed, steps>>
    /\ UNCHANGED <<pvars, rvars>>

LangTrainUpdate ==
    /\ model = "lang"
    /\ t_pc = "loop"
    /\ steps < MaxSteps
    /\ \E a \in AccVals, temp \in LossNodes(LangParams) :
        /\ ~LangStops(a)
        /\ acc' = a
        /\ LET grads == gradients(temp, LangGradList)
               grad_w1 == grads[1]
               grad_w2 == grads[2]
               grad_w3 == grads[3]
               grad_b1 == grads[4]
               grad_b2 == grads[5]
               grad_b3 == grads[6]
           IN  /\ params' =
                    [params EXCEPT
                        !["w1"] = Update(@, grad_w1.val, LangLearningRate),
                        !["w2"] = Update(@, grad_w2.val, LangLearningRate),
                        !["w3"] = Update(@, grad_w3.val, LangLearningRate),
                        !["b1"] = Update(@, grad_b1.val, LangLearningRate),
                        !["b2"] = Update(@, grad_b2.val, LangLearningRate),
                        !["b3"] = Update(@, grad_b3.val, LangLearningRate)]
               /\ calls' =
                    << Call("w1", grad_w1, LangLearningRate),
                       Call("w2", grad_w2, LangLearningRate),
                       Call("w3", grad_w3, LangLearningRate),
                       Call("b1", grad_b1, LangLearningRate),
                       Call("b2", grad_b2, LangLearningRate),
                       Call("b3", grad_b3, LangLearningRate) >>
    /\ steps' = steps + 1
    /\ UNCHANGED <<model, t_pc, loss, printed>>
    /\ UNCHANGED <<pvars, rvars>>

\* one of the three models is constructed and trained
TrainInit ==
    /\ \/ TInit("regression", RegParams)
       \/ TInit("digit", DigitParams)
       \/ TInit("lang", LangParams)
    /\ PIdle
    /\ RIdle

TrainNext ==
    \/ RegTrainBreak
    \/ RegTrainUpdate
    \/ DigitTrainBreak
    \/ DigitTrainUpdate
    \/ LangTrainBreak
    \/ LangTrainUpdate

TrainSpec == TrainInit /\ [][TrainNext]_vars /\ WF_vars(TrainNext)

(***************************************************************************)
(* LanguageIDModel.run on one word (a batch of one row).                   *)
(***************************************************************************)
\* an r x c matrix with a where i + j is even and b elsewhere
Mat(r, c, a, b) ==
    [i \in 1 .. r |-> [j \in 1 .. c |-> IF (i + j) % 2 = 0 THEN a ELSE b]]

Entries == {-1, 0, 1}

\* the one-hot encodings of the characters
OneHot == {<< [j \in 1 .. NumChars |-> IF j = k THEN 1 ELSE 0] >> : k \in 1 .. NumChars}
Words == UNION {[1 .. n -> OneHot] : n \in 1 .. MaxL}

WHiddenVals == {Mat(NumChars, HiddenSize, a, b) : a, b \in Entries}
WHidden2Vals == {Mat(HiddenSize, HiddenSize, a, b) : a, b \in Entries}

\* the parameters __init__ creates; the recurrent ones are drawn, the dense
\* ones are fixed
Nets ==
    {[w1 |-> Mat(HiddenSize, HiddenSize, 1, -1),
      b1 |-> Mat(1, HiddenSize, 0, 1),
      w2 |-> Mat(HiddenSize, HiddenSize, 1, 1),
      b2 |-> Mat(1, HiddenSize, -1, 0),
      w3 |-> Mat(HiddenSize, NumLanguages, 1, -1),
      b3 |-> Mat(1, NumLanguages, 0, 1),
      W_hidden |-> wh,
      W_hidden2 |-> wh2] : wh \in WHiddenVals, wh2 \in WHidden2Vals}

\* x = nn.ReLU(nn.Linear(elem, self.W_hidden))
FirstStep(n, elem) == ReLU(Linear(elem, n.W_hidden))

\* x = nn.Add(nn.Linear(elem, self.W_hidden), nn.Linear(x, self.W_hidden2))
RecurStep(n, elem, h) == Add(Linear(elem, n.W_hidden), Linear(h, n.W_hidden2))

\* the three dense layers after the loop
Dense(n, h) ==
    LET dot == Linear(h, n.w1)
        bias_added == ReLU(AddBias(dot, n.b1))
        dot2 == Linear(bias_added, n.w2)
        bias_added2 == ReLU(AddBias(dot2, n.b2))
        dot3 == Linear(bias_added2, n.w3)
        bias_added3 == AddBias(dot3, n.b3)
    IN  bias_added3

\* the hidden state after the first k elements of word
RECURSIVE Hidden(_, _, _)
Hidden(n, word, k) ==
    IF k = 1 THEN FirstStep(n, word[1])
    ELSE RecurStep(n, word[k], Hidden(n, word, k - 1))

\* run as a function of the parameters and the word
Forward(n, word) == Dense(n, Hidden(n, word, Len(word)))

RInit ==
    /\ xs \in Words
    /\ net \in Nets
    /\ r_pc = "loop"
    /\ first = 1
    /\ r_i = 0
    /\ x = <<>>
    /\ adds = 0
    /\ logits = <<>>

FirstKept(f) == f

\* first = 0
FirstCleared(f) == 0

\* the loop body, first == 1
RunFirst ==
    /\ r_pc = "loop"
    /\ r_i < Len(xs)
    /\ first = 1
    /\ first' = FirstCleared(first)
    /\ x' = FirstStep(net, xs[r_i + 1])
    /\ r_i' = r_i + 1
    /\ UNCHANGED <<xs, net, r_pc, adds, logits>>
    /\ UNCHANGED <<pvars, tvars>>

\* the loop body, else branch
RunRecur ==
    /\ r_pc = "loop"
    /\ r_i < Len(xs)
    /\ first # 1
    /\ x' = RecurStep(net, xs[r_i + 1], x)
    /\ adds' = adds + 1
    /\ r_i' = r_i + 1
    /\ UNCHANGED <<xs, net, r_pc, first, logits>>
    /\ UNCHANGED <<pvars, tvars>>

\* xs is exhausted: the dense layers, and run returns
RunDense ==
    /\ r_pc = "loop"
    /\ r_i = Len(xs)
    /\ logits' = Dense(net, x)
    /\ r_pc' = "done"
    /\ UNCHANGED <<xs, net, first, r_i, x, adds>>
    /\ UNCHANGED <<pvars, tvars>>

RunInit == RInit /\ PIdle /\ TIdle

RunNext ==
    \/ RunFirst
    \/ RunRecur
    \/ RunDense

RunSpec == RunInit /\ [][RunNext]_vars /\ WF_vars(RunNext)

(***************************************************************************)
(* Claims about PerceptronModel, checked under PerceptronSpec.             *)
(***************************************************************************)
SepWeight == -2 .. 2

\* a separator through the origin with a positive margin on every example
Separable(D) ==
    \E ws \in Vectors(SepWeight) :
        \A i \in 1 .. Len(D) : D[i].y * as_scalar(DotProduct(ws, D[i].x)) > 0

AllCorrect ==
    \A i \in 1 .. Len(dataset) : get_prediction(w, dataset[i].x) = dataset[i].y

\* C1: on a linearly separable dataset (separator through the origin), from
\* every initial weight vector, train terminates, and when it has returned
\* get_prediction(x) = y for every example (x, y) of the dataset.
C1_TrainConverges ==
    Separable(dataset) => <>(p_pc = "done" /\ AllCorrect)

\* C1 witness: train has returned on a separable dataset of MaxN examples
\* after at least one update (the weights left the initial range).
C1_Witness ==
    /\ p_pc = "done"
    /\ Len(dataset) = MaxN
    /\ Separable(dataset)
    /\ w \notin Vectors(InitWeight)
    /\ AllCorrect

\* C2: get_prediction(x) is +1 when the score run(x) is >= 0 (so +1 at a
\* score of exactly 0), -1 when the score is negative, and nothing else.
C2_PredictionSign ==
    \A pt \in Vectors(Coord) :
        LET score == as_scalar(run(w, pt))
            pred == get_prediction(w, pt)
        IN  /\ pred \in {1, -1}
            /\ score >= 0 => pred = 1
            /\ score < 0 => pred = -1

\* C2 witness: the example train has just tested has score exactly 0 and
\* label +1, and no update was made in this pass: the prediction was +1.
C2_Witness ==
    /\ p_pc = "for"
    /\ idx > 0
    /\ p_upd = 0
    /\ as_scalar(run(w, dataset[idx].x)) = 0
    /\ dataset[idx].y = 1
    /\ get_prediction(w, dataset[idx].x) = 1

\* C3: train returns only right after a complete pass over the dataset in
\* which no update was applied; after a pass with an update a further pass
\* is started from the first example; train never returns in mid-pass.
C3_ReturnsAfterCleanPass ==
    [][ /\ (p_pc' = "done" /\ p_pc # "done")
            => (p_pc = "check" /\ idx = Len(dataset) /\ p_upd = 0)
        /\ (p_pc' = "check" /\ p_pc # "check") => idx = Len(dataset)
        /\ (p_pc = "check" /\ p_upd > 0) => p_pc' = "while"
        /\ p_pc = "while" => (p_pc' = "for" /\ idx' = 0 /\ p_upd' = 0)
        /\ (p_pc = "for" /\ idx < Len(dataset)) => p_pc' = "for"
      ]_vars

\* C3 witness: train has returned after a clean pass over a non-empty
\* dataset, an earlier pass having updated the weights.
C3_Witness ==
    /\ p_pc = "done"
    /\ Len(dataset) > 0
    /\ idx = Len(dataset)
    /\ p_upd = 0
    /\ w \notin Vectors(InitWeight)

\* C9: on each example (x, y) of a pass, if the prediction under the current
\* weights differs from y the weights become w + y*x, otherwise they are
\* left unchanged; the current weights include the updates made earlier in
\* the same pass.
C9_UpdateRule ==
    [][ (p_pc = "for" /\ idx < Len(dataset)) =>
            LET e == dataset[idx + 1]
                score == as_scalar(run(w, e.x))
                pred == IF score >= 0 THEN 1 ELSE -1
            IN  w' = IF pred # e.y
                     THEN << [j \in 1 .. Dim |-> w[1][j] + e.y * e.x[1][j]] >>
                     ELSE w
      ]_vars

\* C9 witness: the second example of a pass was updated on, after an update
\* on the first one.
C9_Witness ==
    /\ p_pc = "for"
    /\ idx = 2
    /\ p_upd = 2

(***************************************************************************)
(* Claims about the gradient-descent loops, checked under TrainSpec.       *)
(***************************************************************************)
Updated(cs) == {cs[i].param : i \in 1 .. Len(cs)}

TimesUpdated(cs, p) == Cardinality({i \in 1 .. Len(cs) : cs[i].param = p})

\* C5: every LanguageIDModel.train step that does not stop the loop updates
\* all eight parameters run uses: w1, w2, w3, b1, b2, b3, W_hidden and
\* W_hidden2.
C5_AllEightUpdated ==
    (model = "lang" /\ t_pc = "loop" /\ steps > 0) =>
        /\ Updated(calls) =
              {"w1", "w2", "w3", "b1", "b2", "b3", "W_hidden", "W_hidden2"}
        /\ \A i \in 1 .. Len(calls) :
              calls[i].grad.wrt \in
                  {"w1", "w2", "w3", "b1", "b2", "b3", "W_hidden", "W_hidden2"}

\* C7: DigitClassificationModel.train returns at the first iteration whose
\* accuracy test reads a value >= 0.978 (0.978 itself included) and updates
\* nothing in that iteration; an iteration that reads less updates w1, w2,
\* b1 and b2 and goes on; so after train has returned the accuracy it last
\* tested is >= 0.978.
C7_DigitStopsAtTarget ==
    [][ (model = "digit" /\ t_pc = "loop") =>
            /\ acc' >= 978 =>
                  (t_pc' = "done" /\ params' = params /\ calls' = <<>>)
            /\ acc' < 978 =>
                  /\ t_pc' = "loop"
                  /\ Updated(calls') = {"w1", "w2", "b1", "b2"}
                  /\ \A p \in {"w1", "w2", "b1", "b2"} : params'[p] # params[p]
            /\ t_pc' = "done" => acc' >= 978
      ]_vars

\* C7 witness: train has returned on reading exactly 0.978, after updates.
C7_Witness ==
    /\ model = "digit"
    /\ t_pc = "done"
    /\ acc = 978
    /\ steps > 0

\* C8: RegressionModel.train returns at the first batch whose loss is below
\* 0.02 and updates nothing for that batch; for a batch whose loss is >=
\* 0.02 it applies exactly one update to each of w1, w2, b1 and b2 and goes
\* on to the next batch.
C8_RegStopsBelowTarget ==
    [][ (model = "regression" /\ t_pc = "loop") =>
            /\ loss' < 20 =>
                  (t_pc' = "done" /\ params' = params /\ calls' = <<>>)
            /\ loss' >= 20 =>
                  /\ t_pc' = "loop"
                  /\ Len(calls') = 4
                  /\ \A p \in {"w1", "w2", "b1", "b2"} :
                        /\ TimesUpdated(calls', p) = 1
                        /\ params'[p] # params[p]
      ]_vars

\* C8 witness: the first batch already had a loss below 0.02: train has
\* returned and the parameters are as constructed.
C8_Witness ==
    /\ model = "regression"
    /\ t_pc = "done"
    /\ loss = 19
    /\ steps = 0
    /\ \E v \in InitVals : params = [p \in RegParams |-> v]

LearningRateOf(m) ==
    CASE m = "regression" -> -5
      [] m = "digit" -> -50
      [] m = "lang" -> -50

\* C10: in every update of the three train loops the parameter p becomes
\* p + learning_rate * g, with the model's negative learning rate and g the
\* gradient of the loss with respect to p itself: the gradients are
\* unpacked in the order the parameters were handed to nn.gradients.
C10_OwnGradient ==
    [][ \A i \in 1 .. Len(calls') :
            LET c == calls'[i]
            IN  /\ c.grad.wrt = c.param
                /\ c.multiplier = LearningRateOf(model)
                /\ c.multiplier < 0
                /\ params'[c.param] =
                      << <<params[c.param][1][1]
                            + LearningRateOf(model) * c.grad.val[1][1]>> >>
                /\ TimesUpdated(calls', c.param) = 1
      ]_vars

\* C10 witness: the language model has made MaxSteps updating iterations,
\* the last with six update calls.
C10_Witness ==
    /\ model = "lang"
    /\ steps = MaxSteps
    /\ Len(calls) = 6

(***************************************************************************)
(* Claims about LanguageIDModel.run, checked under RunSpec.                *)
(***************************************************************************)
\* C4: for every character after the first, run computes the hidden state
\* as ReLU(Linear(x_t, W_hidden) + Linear(h, W_hidden2)).
C4_ReLUEveryStep ==
    [][ (r_pc = "loop" /\ r_i >= 1 /\ r_i < Len(xs)) =>
            x' = ReLU(Add(Linear(xs[r_i + 1], net.W_hidden),
                          Linear(x, net.W_hidden2)))
      ]_vars

\* C6: on a word of one character run takes the first-character branch
\* only: the final hidden vector is ReLU(Linear(x_0, W_hidden)) and the
\* logits are the same whatever W_hidden2 is; on a word of L >= 2
\* characters the additive branch is taken exactly L - 1 times.
C6_LengthOne ==
    r_pc = "done" =>
        /\ adds = Len(xs) - 1
        /\ Len(xs) = 1 =>
              /\ x = ReLU(Linear(xs[1], net.W_hidden))
              /\ \A v \in WHidden2Vals :
                    Forward([net EXCEPT !.W_hidden2 = v], xs) = logits

\* C6 witness: run has returned on a word of one character whose hidden
\* vector is not zero, with a W_hidden2 that is not zero.
C6_Witness ==
    /\ r_pc = "done"
    /\ Len(xs) = 1
    /\ x # Mat(1, HiddenSize, 0, 0)
    /\ net.W_hidden2 # Mat(HiddenSize, HiddenSize, 0, 0)
    /\ logits = Forward(net, xs)

====
